---- MODULE Spec2Model ----
(***************************************************************************)
(* A model of the retrieval-and-grounding pipeline of src/main.py:         *)
(* PDFProcessor (clean_text, chunk_text, process_pdf), VectorStore         *)
(* (build_index, search), LLMInterface (generate_answer,                   *)
(* _fallback_answer) and RAGSystem (answer_question, clear).               *)
(*                                                                         *)
(* Strings are sequences of one-character strings, so that slicing,        *)
(* concatenation, formatting and regular-expression matching are computed  *)
(* character by character.  Scores are cosine similarities in hundredths.  *)
(***************************************************************************)
EXTENDS Integers, Sequences, FiniteSets, TLC

VARIABLES
    \* ---- LLMInterface._fallback_answer exercised on its own
    fb_pc,          \* "input" | "done"
    fb_chunks,      \* the context_chunks argument
    fb_answer,      \* the returned string
    \* ---- PDFProcessor.clean_text exercised on its own
    cl_pc,          \* "input" | "once" | "twice"
    cl_text,        \* the raw text
    cl_once,        \* clean_text(cl_text)
    cl_twice,       \* clean_text(cl_once)
    \* ---- PDFProcessor: process_pdf and the chunk_text call it is in
    pc,             \* "extract" | "for" | "while" | "processed"
    raw_pages,      \* what PdfReader gives: per page, extract_text()'s outcome
    chunk_size,     \* self.chunk_size
    chunk_overlap,  \* self.chunk_overlap
    pages,          \* extract_text_by_page's result: <<page_num, text>> pairs
    page_i,         \* the position of process_pdf's for loop in pages
    words,          \* chunk_text: text.split()
    start,          \* chunk_text: start
    chunk_id,       \* chunk_text: chunk_id
    page_chunks,    \* chunk_text: chunks
    all_chunks,     \* process_pdf: all_chunks
    chunk_counter,  \* process_pdf: chunk_counter
    \* ---- VectorStore
    index,          \* self.index: None, or the faiss index and its vectors
    chunks,         \* self.chunks
    dimension,      \* self.dimension (0 stands for None)
    indexed,        \* the chunk list the vectors of index were encoded from
    lib,            \* what the installed faiss and encoder do where the
                    \* code relies on more than they promise
    \* ---- the last call made on the VectorStore, and for a search its
    \* arguments and what it returned
    vs_op,          \* "none" | "build" | "build_failed" | "search" |
                    \* "search_raised"
    search_query,   \* its query argument
    search_k,       \* its top_k argument
    results,        \* what it returned
    \* ---- RAGSystem and its LLMInterface
    rag_pc,         \* "constructing" | "ready" | "failed" (__init__ raised)
    use_gemini,     \* self.llm.use_gemini
    use_openai,     \* self.llm.use_openai
    top_k,          \* self.top_k
    rag_chunks,     \* self.chunks
    chat_history,   \* self.chat_history
    \* ---- the last call made on the RAGSystem
    ask_op,         \* "none" | "answered" | "raised" | "clear"
    ask_query,      \* the query of answer_question
    ask_answer,     \* the string it returned
    llm_call,       \* the request it made to the generation client, if any
    asked           \* the completed calls of answer_question since the last
                    \* clear: their queries and returned answers

fbVars == <<fb_pc, fb_chunks, fb_answer>>

clVars == <<cl_pc, cl_text, cl_once, cl_twice>>

pdfVars == <<pc, raw_pages, chunk_size, chunk_overlap, pages, page_i, words,
             start, chunk_id, page_chunks, all_chunks, chunk_counter>>

vsVars == <<index, chunks, dimension, indexed, lib, vs_op, search_query,
            search_k, results>>

ragVars == <<rag_pc, use_gemini, use_openai, top_k, rag_chunks, chat_history,
             ask_op, ask_query, ask_answer, llm_call, asked>>

vars == <<fb_pc, fb_chunks, fb_answer, cl_pc, cl_text, cl_once, cl_twice,
          pc, raw_pages, chunk_size, chunk_overlap, pages, page_i, words,
          start, chunk_id, page_chunks, all_chunks, chunk_counter,
          index, chunks, dimension, indexed, lib, vs_op, search_query,
          search_k, results,
          rag_pc, use_gemini, use_openai, top_k, rag_chunks, chat_history,
          ask_op, ask_query, ask_answer, llm_call, asked>>

(***************************************************************************)
(* A part of the program that a specification does not exercise stays in   *)
(* its idle state.                                                         *)
(***************************************************************************)
FbIdle ==
    /\ fb_pc = "idle"
    /\ fb_chunks = <<>>
    /\ fb_answer = <<>>

ClIdle ==
    /\ cl_pc = "idle"
    /\ cl_text = <<>>
    /\ cl_once = <<>>
    /\ cl_twice = <<>>

PdfIdle ==
    /\ pc = "idle"
    /\ raw_pages = <<>>
    /\ chunk_size = 0
    /\ chunk_overlap = 0
    /\ pages = <<>>
    /\ page_i = 0
    /\ words = <<>>
    /\ start = 0
    /\ chunk_id = 0
    /\ page_chunks = <<>>
    /\ all_chunks = <<>>
    /\ chunk_counter = 0

NoIndex == [is_none |-> TRUE, vectors |-> <<>>]

FaissIndex(vectors) == [is_none |-> FALSE, vectors |-> vectors]

VsIdle ==
    /\ index = NoIndex
    /\ chunks = <<>>
    /\ dimension = 0
    /\ indexed = <<>>
    /\ lib = [ties_desc |-> FALSE, checks_k |-> FALSE, empty_2d |-> FALSE]
    /\ vs_op = "idle"
    /\ search_query = <<>>
    /\ search_k = 0
    /\ results = <<>>

\* no request was made to the generation client
NoCall == [invoked |-> FALSE, failed |-> FALSE, query |-> <<>>,
           history |-> <<>>]

RagIdle ==
    /\ rag_pc = "idle"
    /\ use_gemini = FALSE
    /\ use_openai = FALSE
    /\ top_k = 0
    /\ rag_chunks = <<>>
    /\ chat_history = <<>>
    /\ ask_op = "idle"
    /\ ask_query = <<>>
    /\ ask_answer = <<>>
    /\ llm_call = NoCall
    /\ asked = <<>>

(***************************************************************************)
(* Bounds of the model.                                                    *)
(***************************************************************************)
MaxShort == 9       \* short chunk texts have 1..MaxShort characters
MaxOver == 2        \* long chunk texts exceed the snippet limit by up to MaxOver
MaxPieces == 4      \* raw texts to clean are made of up to MaxPieces pieces
MaxPages == 2       \* a document has up to MaxPages pages
MaxTokens == 4      \* a page has up to MaxTokens tokens
MaxChunkSize == 3   \* chunk_size ranges over 1..MaxChunkSize
MaxChunks == 3      \* a chunk list given to build_index has up to MaxChunks chunks
MaxTopK == 3        \* top_k ranges up to MaxTopK
MaxAsks == 3        \* up to MaxAsks completed calls between two clears

(***************************************************************************)
(* Program constants.                                                      *)
(***************************************************************************)
Threshold == 40     \* 0.4, in hundredths
SnippetLen == 200
PadScore == -34028  \* the score faiss gives a slot it could not fill (-FLT_MAX)

(***************************************************************************)
(* Characters and strings.                                                 *)
(***************************************************************************)
DigitChars == <<"0", "1", "2", "3", "4", "5", "6", "7", "8", "9">>

IsDigit(c) == \E i \in 1..10 : DigitChars[i] = c

DigitVal(c) == (CHOOSE i \in 1..10 : DigitChars[i] = c) - 1

\* str(n) for an int n >= 0, as an f-string renders it
RECURSIVE DecStr(_)
DecStr(n) == IF n < 10 THEN <<DigitChars[n + 1]>>
             ELSE DecStr(n \div 10) \o <<DigitChars[(n % 10) + 1]>>

\* s[a:b] of Python for 0 <= a, with b clipped to len(s)
Slice(s, a, b) ==
    LET e == IF b > Len(s) THEN Len(s) ELSE b
    IN  IF a >= e THEN <<>> ELSE SubSeq(s, a + 1, e)

Min(a, b) == IF a < b THEN a ELSE b

StartsWith(s, p) == Len(p) <= Len(s) /\ SubSeq(s, 1, Len(p)) = p

\* the first n characters of pattern p repeated
Rep(p, n) == [i \in 1..n |-> p[((i - 1) % Len(p)) + 1]]

Refusal == <<"N", "o", "t", " ", "f", "o", "u", "n", "d", " ", "i", "n", " ",
             "t", "h", "e", " ", "d", "o", "c", "u", "m", "e", "n", "t", ".">>

Dots == <<".", ".", ".">>

(***************************************************************************)
(* Regular expressions of clean_text, matched as Python's re does: the     *)
(* leftmost match, greedy, IGNORECASE on the first three patterns.         *)
(***************************************************************************)
UpperChars == <<"A", "B", "C", "D", "E", "F", "G", "H", "I", "J", "K", "L", "M",
                "N", "O", "P", "Q", "R", "S", "T", "U", "V", "W", "X", "Y", "Z">>

LowerChars == <<"a", "b", "c", "d", "e", "f", "g", "h", "i", "j", "k", "l", "m",
                "n", "o", "p", "q", "r", "s", "t", "u", "v", "w", "x", "y", "z">>

Lower(c) == IF \E i \in 1..26 : UpperChars[i] = c
            THEN LowerChars[CHOOSE i \in 1..26 : UpperChars[i] = c]
            ELSE c

\* the characters \s matches and strip() and split() take for white space
IsSpace(c) == c \in {" ", "\n", "\t"}

\* the first position at or after i that holds no white space
RECURSIVE SkipWs(_, _)
SkipWs(s, i) == IF i <= Len(s) /\ IsSpace(s[i]) THEN SkipWs(s, i + 1) ELSE i

\* the position after the literal lit (given in lower case) matched at i
\* ignoring case, or 0
MatchLit(s, i, lit) ==
    IF /\ i + Len(lit) - 1 <= Len(s)
       /\ \A k \in 1..Len(lit) : Lower(s[i + k - 1]) = lit[k]
    THEN i + Len(lit) ELSE 0

\* lit1 \s+ lit2 \s+ ... litn matched at i: the position after, or 0.  A
\* greedy \s+ has one way to match here: every literal starts with a letter.
RECURSIVE MatchWords(_, _, _)
MatchWords(s, i, lits) ==
    LET a == MatchLit(s, i, lits[1])
    IN  IF a = 0 THEN 0
        ELSE IF Len(lits) = 1 THEN a
        ELSE LET b == SkipWs(s, a)
             IN  IF b = a THEN 0 ELSE MatchWords(s, b, Tail(lits))

LitStrictly == <<"s", "t", "r", "i", "c", "t", "l", "y">>
LitConfidential == <<"c", "o", "n", "f", "i", "d", "e", "n", "t", "i", "a", "l">>
LitHome == <<"h", "o", "m", "e">>
LitOutline == <<"o", "u", "t", "l", "i", "n", "e">>
LitHamburger == <<"h", "a", "m", "b", "u", "r", "g", "e", "r">>
LitMenu == <<"m", "e", "n", "u">>
LitIcon == <<"i", "c", "o", "n">>
LitWith == <<"w", "i", "t", "h">>
LitSolid == <<"s", "o", "l", "i", "d">>
LitFill == <<"f", "i", "l", "l">>

\* (\s*STRICTLY\s+CONFIDENTIAL)* from position e: the end of the last
\* repetition that matches
RECURSIVE WatermarkStar(_, _)
WatermarkStar(s, e) ==
    LET u == MatchWords(s, SkipWs(s, e), <<LitStrictly, LitConfidential>>)
    IN  IF u = 0 THEN e ELSE WatermarkStar(s, u)

\* the position after the match of pattern pat at i, or 0
MatchAt(pat, s, i) ==
    CASE pat = "watermark" ->
           LET u == MatchWords(s, i, <<LitStrictly, LitConfidential>>)
           IN  IF u = 0 THEN 0 ELSE WatermarkStar(s, u)
      [] pat = "home" ->
           LET u == MatchWords(s, i, <<LitHome, LitOutline>>)
           IN  IF u = 0 \/ SkipWs(s, u) = u THEN 0 ELSE SkipWs(s, u)
      [] pat = "hamburger" ->
           LET u == MatchWords(s, i, <<LitHamburger, LitMenu, LitIcon,
                                       LitWith, LitSolid, LitFill>>)
           IN  IF u = 0 THEN 0 ELSE SkipWs(s, u)
      [] pat = "spaces" ->
           IF SkipWs(s, i) = i THEN 0 ELSE SkipWs(s, i)

\* re.sub(pat, repl, s) from position i on
RECURSIVE ReSubFrom(_, _, _, _)
ReSubFrom(pat, repl, s, i) ==
    IF i > Len(s) THEN <<>>
    ELSE LET e == MatchAt(pat, s, i)
         IN  IF e = 0 THEN <<s[i]>> \o ReSubFrom(pat, repl, s, i + 1)
             ELSE repl \o ReSubFrom(pat, repl, s, e)

ReSub(pat, repl, s) == ReSubFrom(pat, repl, s, 1)

\* the last position at or before i that holds no white space (0 when none)
RECURSIVE SkipWsBack(_, _)
SkipWsBack(s, i) == IF i >= 1 /\ IsSpace(s[i]) THEN SkipWsBack(s, i - 1) ELSE i

\* str.strip()
Strip(s) ==
    LET a == SkipWs(s, 1)
        b == SkipWsBack(s, Len(s))
    IN  IF a > b THEN <<>> ELSE SubSeq(s, a, b)

\* the first position at or after i that holds white space, or Len(s) + 1
RECURSIVE SkipWord(_, _)
SkipWord(s, i) == IF i <= Len(s) /\ ~IsSpace(s[i]) THEN SkipWord(s, i + 1) ELSE i

\* str.split(): the maximal runs of characters that are not white space
RECURSIVE SplitFrom(_, _)
SplitFrom(s, i) ==
    LET a == SkipWs(s, i)
    IN  IF a > Len(s) THEN <<>>
        ELSE LET b == SkipWord(s, a)
             IN  <<SubSeq(s, a, b - 1)>> \o SplitFrom(s, b)

Split(s) == SplitFrom(s, 1)

\* ' '.join(words)
RECURSIVE Join(_)
Join(ws) ==
    IF ws = <<>> THEN <<>>
    ELSE IF Len(ws) = 1 THEN ws[1]
    ELSE ws[1] \o <<" ">> \o Join(Tail(ws))

(***************************************************************************)
(* PDFProcessor.clean_text                                                 *)
(***************************************************************************)
clean_text(text) ==
    LET t1 == ReSub("watermark", <<>>, text)
        t2 == ReSub("home", <<>>, t1)
        t3 == ReSub("hamburger", <<>>, t2)
        t4 == ReSub("spaces", <<" ">>, t3)
    IN  Strip(t4)

(***************************************************************************)
(* Chunk                                                                   *)
(***************************************************************************)
Chunk(text, page_num, id) ==
    [text |-> text, page_num |-> page_num, chunk_id |-> id]

get_citation(chunk) ==
    <<"[", "p">> \o DecStr(chunk.page_num) \o <<":", "c">>
                 \o DecStr(chunk.chunk_id) \o <<"]">>

\* one element of a ranked result list: the tuple (chunk, float(score))
Scored(chunk, score) == [chunk |-> chunk, score |-> score]

(***************************************************************************)
(* PDFProcessor.extract_text_by_page.  A raw page is what page.extract_text *)
(* does: it returns a text (ok) or raises.  Pages are numbered from 1.      *)
(***************************************************************************)
RawPage(ok, text) == [ok |-> ok, text |-> text]

RECURSIVE ExtractFrom(_, _)
ExtractFrom(raw, i) ==
    IF i > Len(raw) THEN <<>>
    ELSE LET cleaned_text == clean_text(raw[i].text)
         IN  (IF raw[i].ok /\ Strip(raw[i].text) # <<>> /\ cleaned_text # <<>>
              THEN << <<i, cleaned_text>> >>
              ELSE <<>>) \o ExtractFrom(raw, i + 1)

extract_text_by_page(raw) == ExtractFrom(raw, 1)

(***************************************************************************)
(* PDFProcessor.process_pdf, with PDFProcessor.chunk_text inlined: one     *)
(* action per iteration of its while loop.                                 *)
(***************************************************************************)
ExtractTextByPage ==
    /\ pc = "extract"
    /\ pages' = extract_text_by_page(raw_pages)
    /\ all_chunks' = <<>>
    /\ chunk_counter' = 0
    /\ page_i' = 1
    /\ pc' = "for"
    /\ UNCHANGED <<raw_pages, chunk_size, chunk_overlap, words, start, chunk_id,
                   page_chunks>>

\* chunk_text on a text without words: "if not words: return chunks"
ChunkTextNoWords ==
    /\ pc = "for"
    /\ page_i <= Len(pages)
    /\ Split(pages[page_i][2]) = <<>>
    /\ words' = <<>>
    /\ page_chunks' = <<>>
    /\ all_chunks' = all_chunks \o <<>>
    /\ chunk_counter' = chunk_counter + 0
    /\ page_i' = page_i + 1
    /\ UNCHANGED <<pc, raw_pages, chunk_size, chunk_overlap, pages, start,
                   chunk_id>>

ChunkTextBegin_restart ==
    /\ pc = "for"
    /\ page_i <= Len(pages)
    /\ Split(pages[page_i][2]) # <<>>
    /\ words' = Split(pages[page_i][2])
    /\ page_chunks' = <<>>
    /\ chunk_id' = 0
    /\ start' = 0
    /\ pc' = "while"
    /\ UNCHANGED <<raw_pages, chunk_size, chunk_overlap, pages, page_i,
                   all_chunks, chunk_counter>>

\* chunk_text(text, page_num, chunk_counter) up to its while loop
ChunkTextBegin ==
    /\ pc = "for"
    /\ page_i <= Len(pages)
    /\ Split(pages[page_i][2]) # <<>>
    /\ words' = Split(pages[page_i][2])
    /\ page_chunks' = <<>>
    /\ chunk_id' = chunk_counter
    /\ start' = 0
    /\ pc' = "while"
    /\ UNCHANGED <<raw_pages, chunk_size, chunk_overlap, pages, page_i,
                   all_chunks, chunk_counter>>

ChunkTextStep_skip ==
    /\ pc = "while"
    /\ start < Len(words)
    /\ page_chunks' = Append(page_chunks,
            Chunk(Join(Slice(words, start, start + chunk_size)),
                  pages[page_i][1], chunk_id))
    /\ chunk_id' = chunk_id + 1
    /\ start' = start + chunk_size
    /\ UNCHANGED <<pc, raw_pages, chunk_size, chunk_overlap, pages, page_i,
                   words, all_chunks, chunk_counter>>

\* a mutation of the loop that steps one token too far
ChunkTextStep_wide ==
    /\ pc = "while"
    /\ start < Len(words)
    /\ page_chunks' = Append(page_chunks,
            Chunk(Join(Slice(words, start, start + chunk_size)),
                  pages[page_i][1], chunk_id))
    /\ chunk_id' = chunk_id + 1
    /\ start' = start + (chunk_size - chunk_overlap) + 1
    /\ UNCHANGED <<pc, raw_pages, chunk_size, chunk_overlap, pages, page_i,
                   words, all_chunks, chunk_counter>>

\* one iteration of chunk_text's while loop
ChunkTextStep ==
    /\ pc = "while"
    /\ start < Len(words)
    /\ page_chunks' = Append(page_chunks,
            Chunk(Join(Slice(words, start, start + chunk_size)),
                  pages[page_i][1], chunk_id))
    /\ chunk_id' = chunk_id + 1
    /\ start' = start + (chunk_size - chunk_overlap)
    /\ UNCHANGED <<pc, raw_pages, chunk_size, chunk_overlap, pages, page_i,
                   words, all_chunks, chunk_counter>>

\* chunk_text returns; process_pdf extends all_chunks and moves on
ChunkTextReturn ==
    /\ pc = "while"
    /\ ~(start < Len(words))
    /\ all_chunks' = all_chunks \o page_chunks
    /\ chunk_counter' = chunk_counter + Len(page_chunks)
    /\ page_i' = page_i + 1
    /\ pc' = "for"
    /\ UNCHANGED <<raw_pages, chunk_size, chunk_overlap, pages, words, start,
                   chunk_id, page_chunks>>

ProcessPdfReturn ==
    /\ pc = "for"
    /\ page_i > Len(pages)
    /\ pc' = "processed"
    /\ UNCHANGED <<raw_pages, chunk_size, chunk_overlap, pages, page_i, words,
                   start, chunk_id, page_chunks, all_chunks, chunk_counter>>

(***************************************************************************)
(* The embedding model and faiss.  SentenceTransformer.encode is a fixed   *)
(* function of the text; here it gives a 2-dimensional integer vector, a   *)
(* multiple of one of the directions below, chosen by the characters of    *)
(* the text.  A normalised vector has length 5, so that the inner product  *)
(* of two normalised vectors is 25 times their cosine.                     *)
(***************************************************************************)
Directions == << <<5, 0>>, <<4, 3>>, <<3, 4>>, <<0, 5>>, <<-3, 4>>, <<-5, 0>> >>

CharCode(c) ==
    IF \E i \in 1..26 : LowerChars[i] = c
    THEN CHOOSE i \in 1..26 : LowerChars[i] = c
    ELSE IF \E i \in 1..26 : UpperChars[i] = c
    THEN (CHOOSE i \in 1..26 : UpperChars[i] = c) + 26
    ELSE IF IsDigit(c) THEN DigitVal(c) + 53
    ELSE 0

RECURSIVE TextCode(_)
TextCode(text) ==
    IF text = <<>> THEN 0 ELSE CharCode(Head(text)) + TextCode(Tail(text))

\* self.model.encode([text])[0]
Embed(text) ==
    LET h == TextCode(text)
        d == Directions[(h % Len(Directions)) + 1]
        m == ((h \div Len(Directions)) % 2) + 1
    IN  <<m * d[1], m * d[2]>>

Dot(u, v) == u[1] * v[1] + u[2] * v[2]

\* the integer square root
ISqrt(n) == CHOOSE r \in 0..n : r * r <= n /\ (r + 1) * (r + 1) > n

\* faiss.normalize_L2 on one vector: a zero vector is left as it is
normalize_L2(v) ==
    LET n == ISqrt(Dot(v, v))
    IN  IF n = 0 THEN v ELSE <<(5 * v[1]) \div n, (5 * v[2]) \div n>>

\* float(score) of two normalised vectors, in hundredths
InnerProduct(u, v) == (Dot(u, v) * 100) \div 25

\* i ranks before j in the result of faiss
RanksBefore(scores, i, j, desc) ==
    \/ scores[i] > scores[j]
    \/ scores[i] = scores[j] /\ (IF desc THEN i >= j ELSE i <= j)

\* the positions of S in rank order
RECURSIVE Ranked(_, _, _)
Ranked(scores, S, desc) ==
    IF S = {} THEN <<>>
    ELSE LET best == CHOOSE i \in S : \A j \in S : RanksBefore(scores, i, j, desc)
         IN  <<best>> \o Ranked(scores, S \ {best}, desc)

\* index.search(q, k): k slots of [idx, score], 0-based idx; a slot that
\* cannot be filled holds idx -1 and the lowest score
faiss_search(vectors, q, k, desc) ==
    LET n == Len(vectors)
        scores == [i \in 1..n |-> InnerProduct(vectors[i], q)]
        order == Ranked(scores, 1..n, desc)
    IN  [slot \in 1..k |->
            IF slot <= n
            THEN [idx |-> order[slot] - 1, score |-> scores[order[slot]]]
            ELSE [idx |-> -1, score |-> PadScore]]

\* lst[idx] of Python raises IndexError unless -len(lst) <= idx < len(lst)
PyInRange(lst, idx) == idx >= 0 - Len(lst) /\ idx < Len(lst)

\* lst[idx] of Python for an idx in range: a negative idx counts from the end
PyItem(lst, idx) == IF idx >= 0 THEN lst[idx + 1] ELSE lst[Len(lst) + idx + 1]

(***************************************************************************)
(* VectorStore.search                                                      *)
(***************************************************************************)
\* the loop over zip(indices[0], scores[0]) with its test idx < len(chunks)
RECURSIVE KeepInRange(_, _)
KeepInRange(slots, cs) ==
    IF slots = <<>> THEN <<>>
    ELSE (IF Head(slots).idx < Len(cs)
          THEN <<Scored(PyItem(cs, Head(slots).idx), Head(slots).score)>>
          ELSE <<>>) \o KeepInRange(Tail(slots), cs)

search(idx, cs, l, query, k) ==
    IF idx.is_none THEN <<>>
    ELSE LET query_embedding == normalize_L2(Embed(query))
         IN  KeepInRange(faiss_search(idx.vectors, query_embedding, k,
                                      l.ties_desc), cs)

\* search raises instead of returning: faiss refuses k = 0 where it checks
\* its argument, and self.chunks[idx] raises IndexError out of range
search_raises(idx, cs, l, query, k) ==
    /\ ~idx.is_none
    /\ \/ k = 0 /\ l.checks_k
       \/ LET slots == faiss_search(idx.vectors, normalize_L2(Embed(query)),
                                    k, l.ties_desc)
          IN  \E s \in 1..Len(slots) :
                  slots[s].idx < Len(cs) /\ ~PyInRange(cs, slots[s].idx)

Search(query, k) ==
    /\ ~search_raises(index, chunks, lib, query, k)
    /\ results' = search(index, chunks, lib, query, k)
    /\ search_query' = query
    /\ search_k' = k
    /\ vs_op' = "search"
    /\ UNCHANGED <<index, chunks, dimension, indexed, lib>>

SearchRaises(query, k) ==
    /\ search_raises(index, chunks, lib, query, k)
    /\ search_query' = query
    /\ search_k' = k
    /\ vs_op' = "search_raised"
    /\ results' = <<>>
    /\ UNCHANGED <<index, chunks, dimension, indexed, lib>>

(***************************************************************************)
(* VectorStore.build_index.  encode may raise; given no text at all it     *)
(* returns, depending on the library, an empty matrix with its two         *)
(* dimensions or an empty array with one, of which shape[1] raises.        *)
(***************************************************************************)
EncodeAll(cs) == [i \in 1..Len(cs) |-> Embed(cs[i].text)]

NormalizeAll(embeddings) ==
    [i \in 1..Len(embeddings) |-> normalize_L2(embeddings[i])]

BuildIndexOk(new_chunks) ==
    /\ new_chunks # <<>> \/ lib.empty_2d
    /\ chunks' = new_chunks
    /\ dimension' = 2
    /\ index' = FaissIndex(NormalizeAll(EncodeAll(new_chunks)))
    /\ indexed' = new_chunks
    /\ vs_op' = "build"
    /\ search_query' = <<>>
    /\ search_k' = 0
    /\ results' = <<>>
    /\ UNCHANGED lib

\* an exception at line 137 (encode) or, for no chunks, at line 140
BuildIndexRaises(new_chunks) ==
    /\ chunks' = new_chunks
    /\ vs_op' = "build_failed"
    /\ search_query' = <<>>
    /\ search_k' = 0
    /\ results' = <<>>
    /\ UNCHANGED <<index, dimension, indexed, lib>>

(***************************************************************************)
(* Citation tokens: the pattern \[p\d+:c\d+\] of the wire format.          *)
(***************************************************************************)
\* the first position at or after i that holds no digit
RECURSIVE DigitsEnd(_, _)
DigitsEnd(s, i) ==
    IF i <= Len(s) /\ IsDigit(s[i]) THEN DigitsEnd(s, i + 1) ELSE i

RECURSIVE DecVal(_)
DecVal(d) == IF d = <<>> THEN 0
             ELSE 10 * DecVal(SubSeq(d, 1, Len(d) - 1)) + DigitVal(d[Len(d)])

\* the position after the citation token that starts at i, or 0 when none does
MatchCitationAt(s, i) ==
    IF i + 1 <= Len(s) /\ s[i] = "[" /\ s[i + 1] = "p"
    THEN LET a == DigitsEnd(s, i + 2)
         IN  IF a > i + 2 /\ a + 1 <= Len(s) /\ s[a] = ":" /\ s[a + 1] = "c"
             THEN LET b == DigitsEnd(s, a + 2)
                  IN  IF b > a + 2 /\ b <= Len(s) /\ s[b] = "]" THEN b + 1 ELSE 0
             ELSE 0
    ELSE 0

CountCitations(s) == Cardinality({ i \in 1..Len(s) : MatchCitationAt(s, i) > 0 })

\* s starts with a citation token that reads, in decimal without leading
\* zeros, page p and chunk c
StartsWithCitation(s, p, c) ==
    /\ MatchCitationAt(s, 1) > 0
    /\ LET a == DigitsEnd(s, 3)
           b == DigitsEnd(s, a + 2)
           pd == SubSeq(s, 3, a - 1)
           cd == SubSeq(s, a + 2, b - 1)
       IN  /\ DecVal(pd) = p /\ (Len(pd) > 1 => pd[1] # "0")
           /\ DecVal(cd) = c /\ (Len(cd) > 1 => cd[1] # "0")

(***************************************************************************)
(* LLMInterface._fallback_answer                                           *)
(***************************************************************************)
Snippet_ge(text) ==
    IF Len(text) >= SnippetLen THEN Slice(text, 0, SnippetLen) \o Dots ELSE text

Snippet(text) ==
    IF Len(text) > SnippetLen THEN Slice(text, 0, SnippetLen) \o Dots ELSE text

fallback_answer_le(context_chunks) ==
    IF context_chunks = <<>> THEN Refusal
    ELSE LET top_chunk == context_chunks[1].chunk
             score == context_chunks[1].score
         IN  IF score <= Threshold THEN Refusal
             ELSE get_citation(top_chunk) \o <<" ">> \o Snippet(top_chunk.text)

fallback_answer(context_chunks) ==
    IF context_chunks = <<>> THEN Refusal
    ELSE LET top_chunk == context_chunks[1].chunk
             score == context_chunks[1].score
         IN  IF score < Threshold THEN Refusal
             ELSE get_citation(top_chunk) \o <<" ">> \o Snippet(top_chunk.text)

(***************************************************************************)
(* LLMInterface.  The generation client answers a request with a text, or  *)
(* with a response that has no text, or raises.                            *)
(***************************************************************************)
\* __init__: Gemini is tried first, then OpenAI; key: a key is given,
\* ok: the client package imports and its client is made
LLMInterfaceInit(gemini_key, gemini_ok, openai_key, openai_ok) ==
    LET gemini == gemini_key /\ gemini_ok
    IN  [use_gemini |-> gemini,
         use_openai |-> ~gemini /\ openai_key /\ openai_ok]

\* lst[-n:] of Python
LastN(lst, n) ==
    IF Len(lst) <= n THEN lst ELSE SubSeq(lst, Len(lst) - n + 1, Len(lst))

Request(query, history) ==
    [invoked |-> TRUE, failed |-> FALSE, query |-> query,
     history |-> LastN(history, 10)]

Failed(call) == [call EXCEPT !.failed = TRUE]

\* a mutation of generate_answer that lets the client's exception out
generate_answer_raises(query, context_chunks, history, gemini, openai, outcome) ==
    IF gemini \/ openai
    THEN IF outcome.kind = "text"
         THEN [answer |-> Strip(outcome.text), raised |-> FALSE,
               llm |-> Request(query, history)]
         ELSE [answer |-> <<>>, raised |-> TRUE,
               llm |-> Failed(Request(query, history))]
    ELSE [answer |-> fallback_answer(context_chunks), raised |-> FALSE,
          llm |-> NoCall]

\* generate_answer: both client branches have the same shape, try the
\* request and return its stripped text, except Exception return the
\* fallback answer; raised tells whether an exception leaves the function
generate_answer(query, context_chunks, history, gemini, openai, outcome) ==
    IF gemini \/ openai
    THEN IF outcome.kind = "text"
         THEN [answer |-> Strip(outcome.text), raised |-> FALSE,
               llm |-> Request(query, history)]
         ELSE [answer |-> fallback_answer(context_chunks), raised |-> FALSE,
               llm |-> Failed(Request(query, history))]
    ELSE [answer |-> fallback_answer(context_chunks), raised |-> FALSE,
          llm |-> NoCall]

(***************************************************************************)
(* RAGSystem.answer_question                                               *)
(***************************************************************************)
Message(role, content) == [role |-> role, content |-> content]

\* a mutation of the enhanced query that takes the first user message
\* among the last four of the history
EnhancedQuery_first(history, gemini, openai, query) ==
    IF history # <<>> /\ ~(openai \/ gemini)
    THEN LET recent_user_msgs ==
                 SelectSeq(LastN(history, 4), LAMBDA msg : msg.role = "user")
         IN  IF recent_user_msgs # <<>>
             THEN recent_user_msgs[1].content \o <<" ">> \o query
             ELSE query
    ELSE query

\* the query given to search: in fallback mode, the last user message
\* among the last four of the history, a space, and the query
EnhancedQuery(history, gemini, openai, query) ==
    IF history # <<>> /\ ~(openai \/ gemini)
    THEN LET recent_user_msgs ==
                 SelectSeq(LastN(history, 4), LAMBDA msg : msg.role = "user")
         IN  IF recent_user_msgs # <<>>
             THEN recent_user_msgs[Len(recent_user_msgs)].content
                      \o <<" ">> \o query
             ELSE query
    ELSE query

\* a mutation of answer_question that goes on with the enhanced query
answer_question_enhanced(history, gemini, openai, res, query, outcome) ==
    IF res = <<>>
    THEN [answer |-> Refusal, raised |-> FALSE, llm |-> NoCall,
          chat_history |-> history]
    ELSE LET eq == EnhancedQuery(history, gemini, openai, query)
             g == generate_answer(eq, res, history, gemini, openai, outcome)
         IN  [answer |-> g.answer, raised |-> g.raised, llm |-> g.llm,
              chat_history |-> history \o <<Message("user", eq),
                                             Message("assistant", g.answer)>>]

\* a mutation of answer_question without "if not results: return"
answer_question_ungated(history, gemini, openai, res, query, outcome) ==
    LET g == generate_answer(query, res, history, gemini, openai, outcome)
    IN  [answer |-> g.answer, raised |-> g.raised, llm |-> g.llm,
         chat_history |-> history \o <<Message("user", query),
                                        Message("assistant", g.answer)>>]

\* answer_question from the result res of search on
answer_question(history, gemini, openai, res, query, outcome) ==
    IF res = <<>>
    THEN [answer |-> Refusal, raised |-> FALSE, llm |-> NoCall,
          chat_history |-> history]
    ELSE LET g == generate_answer(query, res, history, gemini, openai, outcome)
         IN  IF g.raised
             THEN [answer |-> <<>>, raised |-> TRUE, llm |-> g.llm,
                   chat_history |-> history]
             ELSE [answer |-> g.answer, raised |-> FALSE, llm |-> g.llm,
                   chat_history |-> history \o <<Message("user", query),
                                                  Message("assistant", g.answer)>>]

AnswerQuestion(query, outcome) ==
    /\ rag_pc = "ready"
    /\ Len(asked) < MaxAsks
    /\ LET enhanced_query ==
               EnhancedQuery(chat_history, use_gemini, use_openai, query)
           r == answer_question(chat_history, use_gemini, use_openai,
                                search(index, chunks, lib, enhanced_query, top_k),
                                query, outcome)
       IN  /\ Search(enhanced_query, top_k)
           /\ ask_op' = IF r.raised THEN "raised" ELSE "answered"
           /\ ask_query' = query
           /\ ask_answer' = r.answer
           /\ llm_call' = r.llm
           /\ chat_history' = r.chat_history
           /\ asked' = IF r.raised THEN asked
                       ELSE Append(asked, [query |-> query, answer |-> r.answer])
    /\ UNCHANGED <<rag_pc, use_gemini, use_openai, top_k, rag_chunks>>

\* search raises, and answer_question with it
AnswerQuestionRaises(query) ==
    /\ rag_pc = "ready"
    /\ SearchRaises(EnhancedQuery(chat_history, use_gemini, use_openai, query),
                    top_k)
    /\ ask_op' = "raised"
    /\ ask_query' = query
    /\ ask_answer' = <<>>
    /\ llm_call' = NoCall
    /\ UNCHANGED <<rag_pc, use_gemini, use_openai, top_k, rag_chunks,
                   chat_history, asked>>

\* the command "clear" of chat_loop
Clear ==
    /\ rag_pc = "ready"
    /\ chat_history' = <<>>
    /\ asked' = <<>>
    /\ ask_op' = "clear"
    /\ ask_query' = <<>>
    /\ ask_answer' = <<>>
    /\ llm_call' = NoCall
    /\ UNCHANGED <<rag_pc, use_gemini, use_openai, top_k, rag_chunks>>

(***************************************************************************)
(* RAGSystem.__init__ after process_pdf has returned                       *)
(***************************************************************************)
RagBuildIndex ==
    /\ rag_pc = "constructing"
    /\ pc = "processed"
    /\ rag_chunks' = all_chunks
    /\ BuildIndexOk(all_chunks)
    /\ rag_pc' = "ready"
    /\ UNCHANGED <<use_gemini, use_openai, top_k, chat_history, ask_op,
                   ask_query, ask_answer, llm_call, asked>>

RagBuildIndexRaises ==
    /\ rag_pc = "constructing"
    /\ pc = "processed"
    /\ rag_chunks' = all_chunks
    /\ BuildIndexRaises(all_chunks)
    /\ rag_pc' = "failed"
    /\ UNCHANGED <<use_gemini, use_openai, top_k, chat_history, ask_op,
                   ask_query, ask_answer, llm_call, asked>>

(***************************************************************************)
(* Specification SpecFallback: _fallback_answer applied to ranked lists.   *)
(***************************************************************************)
CitationLike == <<"[", "p", "9", ":", "c", "1", "2", "]">>

FbPatterns == { <<"a">>, <<"x", " ">>, CitationLike }

FbLens == (1..MaxShort) \cup ((SnippetLen - 1)..(SnippetLen + MaxOver))

FbTexts == { Rep(p, n) : p \in FbPatterns, n \in FbLens }

FbScores == { PadScore, -5, 0, Threshold - 1, Threshold, Threshold + 1, 100 }

FbTop == { Scored(Chunk(t, p, c), s) :
             t \in FbTexts, p \in {1, 12}, c \in {0, 7, 10}, s \in FbScores }

FbRest == { <<>> } \cup { <<Scored(Chunk(<<"b">>, 3, 4), s)>> : s \in FbScores }

\* ranked lists as search produces them: scores do not increase down the list
FbInputs ==
    { <<>> } \cup
    { l \in { <<top>> \o rest : top \in FbTop, rest \in FbRest } :
        \A i \in 1..(Len(l) - 1) : l[i].score >= l[i + 1].score }

FbInit ==
    /\ fb_pc = "input"
    /\ fb_chunks \in FbInputs
    /\ fb_answer = <<>>

FallbackAnswer ==
    /\ fb_pc = "input"
    /\ fb_answer' = fallback_answer(fb_chunks)
    /\ fb_pc' = "done"
    /\ UNCHANGED fb_chunks

FbNext == FallbackAnswer /\ UNCHANGED <<clVars, pdfVars, vsVars, ragVars>>

InitFallback == FbInit /\ ClIdle /\ PdfIdle /\ VsIdle /\ RagIdle

SpecFallback == InitFallback /\ [][FbNext]_vars

(***************************************************************************)
(* Specification SpecClean: clean_text applied to a raw text, and again to *)
(* its own result.                                                         *)
(***************************************************************************)
ClPieces ==
    { <<"S", "T", "R", "I", "C", "T", "L", "Y", " ">>,
      <<"C", "O", "N", "F", "I", "D", "E", "N", "T", "I", "A", "L", " ">>,
      <<"s", "t", "r", "i", "c", "t", "l", "y", "\n">>,
      <<"C", "o", "n", "f", "i", "d", "e", "n", "t", "i", "a", "l">>,
      <<"H", "o", "m", "e", " ">>,
      <<"o", "u", "t", "l", "i", "n", "e", " ">>,
      <<"H", "a", "m", "b", "u", "r", "g", "e", "r", " ", "M", "e", "n", "u",
        "\t", "I", "c", "o", "n", " ", "w", "i", "t", "h", " ", "s", "o", "l",
        "i", "d", " ", "f", "i", "l", "l">>,
      <<"a", " ", " ">>,
      <<"b">> }

RECURSIVE Flatten(_)
Flatten(ss) == IF ss = <<>> THEN <<>> ELSE ss[1] \o Flatten(Tail(ss))

ClTexts ==
    UNION { { Flatten(ps) : ps \in [1..n -> ClPieces] } : n \in 0..MaxPieces }

ClInit ==
    /\ cl_pc = "input"
    /\ cl_text \in ClTexts
    /\ cl_once = <<>>
    /\ cl_twice = <<>>

CleanOnce ==
    /\ cl_pc = "input"
    /\ cl_once' = clean_text(cl_text)
    /\ cl_pc' = "once"
    /\ UNCHANGED <<cl_text, cl_twice>>

CleanAgain ==
    /\ cl_pc = "once"
    /\ cl_twice' = clean_text(cl_once)
    /\ cl_pc' = "twice"
    /\ UNCHANGED <<cl_text, cl_once>>

ClNext ==
    \/ CleanOnce /\ UNCHANGED <<fbVars, pdfVars, vsVars, ragVars>>
    \/ CleanAgain /\ UNCHANGED <<fbVars, pdfVars, vsVars, ragVars>>

InitClean == ClInit /\ FbIdle /\ PdfIdle /\ VsIdle /\ RagIdle

SpecClean == InitClean /\ [][ClNext]_vars

\* C9: clean_text is idempotent: cleaning a cleaned text changes nothing.
C9_CleanIdempotent ==
    (cl_pc = "twice") => (cl_twice = cl_once)

(***************************************************************************)
(* Specification SpecChunk: process_pdf on documents of up to MaxPages     *)
(* pages.  Token i of page k is a word of its own, so that a chunk shows    *)
(* the page its tokens came from.                                          *)
(***************************************************************************)
Token(k, i) ==
    LET c == LowerChars[(((k - 1) * (MaxTokens + 1) + i - 1) % 26) + 1]
    IN  IF i % 2 = 0 THEN <<c, c>> ELSE <<c>>

Tokens(k, n) == [i \in 1..n |-> Token(k, i)]

RECURSIVE JoinWith(_, _)
JoinWith(ws, sep) ==
    IF ws = <<>> THEN <<>>
    ELSE IF Len(ws) = 1 THEN ws[1]
    ELSE ws[1] \o sep \o JoinWith(Tail(ws), sep)

WatermarkText == <<" ", "S", "t", "r", "i", "c", "t", "l", "y", " ", "\n",
                   "C", "O", "N", "F", "I", "D", "E", "N", "T", "I", "A", "L",
                   "\t">>

\* the texts extract_text() may give for page k, and its failure
RawPagesOf(k) ==
    { RawPage(FALSE, <<>>) } \cup
    { RawPage(TRUE, JoinWith(Tokens(k, n), <<" ">>)) : n \in 0..MaxTokens } \cup
    { RawPage(TRUE, <<" ">> \o JoinWith(Tokens(k, n), <<" ", "\n">>)
                     \o WatermarkText) : n \in 0..MaxTokens }

RawDocs ==
    UNION { { d \in [1..m -> UNION { RawPagesOf(k) : k \in 1..m }] :
                \A k \in 1..m : d[k] \in RawPagesOf(k) } : m \in 0..MaxPages }

\* page lists handed to the loop of process_pdf directly, texts without
\* words among them; page k has number 2k - 1
GivenTextsOf(k) ==
    { <<>>, <<" ", "\n">> } \cup
    { JoinWith(Tokens(k, n), <<" ">>) : n \in 1..MaxTokens }

GivenDocs ==
    UNION { { d \in [1..m -> UNION { { <<2 * k - 1, t>> : t \in GivenTextsOf(k) }
                                        : k \in 1..m }] :
                \A k \in 1..m : d[k][1] = 2 * k - 1 /\ d[k][2] \in GivenTextsOf(k) }
            : m \in 1..MaxPages }

Configs ==
    { cfg \in (1..MaxChunkSize) \X (0..MaxChunkSize) : cfg[1] > cfg[2] }

PdfInit ==
    /\ \E cfg \in Configs : chunk_size = cfg[1] /\ chunk_overlap = cfg[2]
    /\ words = <<>>
    /\ start = 0
    /\ chunk_id = 0
    /\ page_chunks = <<>>
    /\ all_chunks = <<>>
    /\ chunk_counter = 0
    /\ \/ /\ pc = "extract"
          /\ raw_pages \in RawDocs
          /\ pages = <<>>
          /\ page_i = 0
       \/ /\ pc = "for"
          /\ raw_pages = <<>>
          /\ pages \in GivenDocs
          /\ page_i = 1

ChunkNext ==
    \/ ExtractTextByPage /\ UNCHANGED <<fbVars, clVars, vsVars, ragVars>>
    \/ ChunkTextNoWords /\ UNCHANGED <<fbVars, clVars, vsVars, ragVars>>
    \/ ChunkTextBegin /\ UNCHANGED <<fbVars, clVars, vsVars, ragVars>>
    \/ ChunkTextStep /\ UNCHANGED <<fbVars, clVars, vsVars, ragVars>>
    \/ ChunkTextReturn /\ UNCHANGED <<fbVars, clVars, vsVars, ragVars>>
    \/ ProcessPdfReturn /\ UNCHANGED <<fbVars, clVars, vsVars, ragVars>>

InitChunk == PdfInit /\ FbIdle /\ ClIdle /\ VsIdle /\ RagIdle

SpecChunk == InitChunk /\ [][ChunkNext]_vars

\* chunk_text is sequential code: inside its loop, the next iteration or
\* the return is taken
ChunkTextLoop ==
    (ChunkTextStep \/ ChunkTextReturn) /\ UNCHANGED <<fbVars, clVars, vsVars, ragVars>>

SpecChunkLive == InitChunk /\ [][ChunkNext]_vars /\ WF_vars(ChunkTextLoop)

(***************************************************************************)
(* Specification SpecStore: a VectorStore, built and rebuilt from chunk    *)
(* lists as process_pdf gives them, and searched.                          *)
(***************************************************************************)
StoreTexts == { <<"a">>, <<"c">> }

StoreQueries == { <<"a">>, <<"b">>, <<"a", " ", "c">> }

\* chunk lists numbered from 0, one page every two chunks
StoreDocs ==
    UNION { { [i \in 1..n |-> Chunk(ts[i], ((i - 1) \div 2) + 1, i - 1)] :
                ts \in [1..n -> StoreTexts] } : n \in 0..MaxChunks }

Libs == [ties_desc : BOOLEAN, checks_k : BOOLEAN, empty_2d : BOOLEAN]

\* VectorStore.__init__
VectorStoreInit ==
    /\ index = NoIndex
    /\ chunks = <<>>
    /\ dimension = 0
    /\ indexed = <<>>
    /\ vs_op = "none"
    /\ search_query = <<>>
    /\ search_k = 0
    /\ results = <<>>

VsInit ==
    /\ VectorStoreInit
    /\ lib \in {l \in Libs : l.checks_k}    \* top_k is never 0 here

StoreNext ==
    \/ \E cs \in StoreDocs :
          BuildIndexOk(cs) /\ UNCHANGED <<fbVars, clVars, pdfVars, ragVars>>
    \/ \E cs \in StoreDocs :
          BuildIndexRaises(cs) /\ UNCHANGED <<fbVars, clVars, pdfVars, ragVars>>
    \/ \E q \in StoreQueries, k \in 1..MaxTopK :
          Search(q, k) /\ UNCHANGED <<fbVars, clVars, pdfVars, ragVars>>
    \/ \E q \in StoreQueries, k \in 1..MaxTopK :
          SearchRaises(q, k) /\ UNCHANGED <<fbVars, clVars, pdfVars, ragVars>>

InitStore == VsInit /\ FbIdle /\ ClIdle /\ PdfIdle /\ RagIdle

SpecStore == InitStore /\ [][StoreNext]_vars

(***************************************************************************)
(* Specification Spec: a RAGSystem is constructed over a document, then    *)
(* asked questions and cleared.  top_k is whatever --top-k gave, 0 too.    *)
(***************************************************************************)
RagDocs ==
    { <<>>,
      <<RawPage(TRUE, <<"a">>)>>,
      <<RawPage(TRUE, <<"a", " ", "c">>)>>,
      <<RawPage(TRUE, <<"a">>), RawPage(FALSE, <<>>),
        RawPage(TRUE, <<"c", " ", "\n", "d">>)>> }

RagQueries == { <<"a">>, <<"d">> }

LLMOutcomes ==
    { [kind |-> "raises", text |-> <<>>],
      [kind |-> "no_text", text |-> <<>>],
      [kind |-> "text", text |-> <<" ", "[", "p", "1", ":", "c", "0", "]", " ",
                                   "a", "\n">>],
      [kind |-> "text", text |-> Refusal] }

RagInit ==
    /\ rag_pc = "constructing"
    /\ top_k \in 0..MaxTopK
    /\ \E gemini_key, gemini_ok, openai_key, openai_ok \in BOOLEAN :
          LET llm == LLMInterfaceInit(gemini_key, gemini_ok, openai_key, openai_ok)
          IN  use_gemini = llm.use_gemini /\ use_openai = llm.use_openai
    /\ rag_chunks = <<>>
    /\ chat_history = <<>>
    /\ ask_op = "none"
    /\ ask_query = <<>>
    /\ ask_answer = <<>>
    /\ llm_call = NoCall
    /\ asked = <<>>
    /\ VectorStoreInit
    /\ lib \in Libs
    /\ pc = "extract"
    /\ raw_pages \in RagDocs
    /\ chunk_size = 2
    /\ chunk_overlap = 1
    /\ pages = <<>>
    /\ page_i = 0
    /\ words = <<>>
    /\ start = 0
    /\ chunk_id = 0
    /\ page_chunks = <<>>
    /\ all_chunks = <<>>
    /\ chunk_counter = 0

\* extract_text_by_page keeps no page without words, so that chunk_text
\* never returns at "if not words" here
Next ==
    \/ ExtractTextByPage /\ UNCHANGED <<fbVars, clVars, vsVars, ragVars>>
    \/ ChunkTextBegin /\ UNCHANGED <<fbVars, clVars, vsVars, ragVars>>
    \/ ChunkTextStep /\ UNCHANGED <<fbVars, clVars, vsVars, ragVars>>
    \/ ChunkTextReturn /\ UNCHANGED <<fbVars, clVars, vsVars, ragVars>>
    \/ ProcessPdfReturn /\ UNCHANGED <<fbVars, clVars, vsVars, ragVars>>
    \/ RagBuildIndex /\ UNCHANGED <<fbVars, clVars, pdfVars>>
    \/ RagBuildIndexRaises /\ UNCHANGED <<fbVars, clVars, pdfVars>>
    \/ \E q \in RagQueries, o \in LLMOutcomes :
          AnswerQuestion(q, o) /\ UNCHANGED <<fbVars, clVars, pdfVars>>
    \/ \E q \in RagQueries :
          AnswerQuestionRaises(q) /\ UNCHANGED <<fbVars, clVars, pdfVars>>
    \/ Clear /\ UNCHANGED <<fbVars, clVars, pdfVars, vsVars>>

Init == RagInit /\ FbIdle /\ ClIdle

Spec == Init /\ [][Next]_vars

\* C1: after N completed calls of answer_question since the last clear,
\* chat_history has exactly 2N entries: the i-th query as user, then the
\* answer the i-th call returned as assistant.
C1_HistoryTwoPerCall ==
    /\ Len(chat_history) = 2 * Len(asked)
    /\ \A i \in 1..Len(asked) :
          /\ chat_history[2 * i - 1] = Message("user", asked[i].query)
          /\ chat_history[2 * i] = Message("assistant", asked[i].answer)

\* C2: when search returns no result, answer_question returns exactly the
\* refusal string and makes no request to the generation client,
\* whichever backend is configured.
C2_EmptyRetrievalRefuses ==
    (ask_op \in {"answered", "raised"} /\ vs_op = "search" /\ results = <<>>) =>
        /\ ask_op = "answered"
        /\ ask_answer = Refusal
        /\ ~llm_call.invoked

C2_Witness ==
    /\ ask_op = "answered"
    /\ chunks # <<>>
    /\ vs_op = "search"
    /\ results = <<>>
    /\ use_gemini \/ use_openai
    /\ ask_answer = Refusal

\* C4: when the request to the configured generation client fails,
\* answer_question still returns, and returns what the fallback path
\* returns for the same results; a call that raises never got as far as
\* answer generation.
C4_ClientFailureFallsBack ==
    /\ (ask_op \in {"answered", "raised"} /\ llm_call.failed) =>
           /\ ask_op = "answered"
           /\ ask_answer = fallback_answer(results)
    /\ (ask_op = "raised") => (vs_op = "search_raised" /\ ~llm_call.invoked)

C4_Witness ==
    /\ ask_op = "answered"
    /\ llm_call.invoked
    /\ llm_call.failed
    /\ use_openai
    /\ ask_answer = fallback_answer(results)
    /\ ask_answer # Refusal

\* C13: the string a call of answer_question gives to search is, without
\* a generation client and with a non-empty history, the query of the
\* call before, a space and the query; without a client and with an
\* empty history, the query; with a client, always the query, also when
\* the client fails and the fallback path answers.
C13_RetrievalQuery ==
    [][(ask_op' \in {"answered", "raised"}) =>
           (search_query' =
               IF ~(use_gemini \/ use_openai) /\ chat_history # <<>>
               THEN asked[Len(asked)].query \o <<" ">> \o ask_query'
               ELSE ask_query')]_vars

C13_Witness ==
    /\ ask_op = "answered"
    /\ ~(use_gemini \/ use_openai)
    /\ Len(asked) >= 3
    /\ asked[Len(asked) - 2].query # asked[Len(asked) - 1].query
    /\ search_query = asked[Len(asked) - 1].query \o <<" ">> \o ask_query

\* C14: clear empties the history and leaves the chunk list, the vector
\* index and the backend as they are; the next completed call of
\* answer_question after it leaves exactly 2 entries in the history, and
\* the string it gives to search is the query alone.
C14_ClearFrame ==
    [][/\ (ask_op' = "clear") =>
             /\ chat_history' = <<>>
             /\ UNCHANGED <<rag_chunks, chunks, index, use_gemini, use_openai>>
       /\ (ask_op = "clear" /\ ask_op' = "answered") =>
             /\ Len(chat_history') = 2
             /\ search_query' = ask_query']_vars

\* C16: the user entry a call of answer_question adds to the history and
\* the query it hands to answer generation are the caller's query, never
\* the enhanced one; so every user entry is a caller's query, and the
\* string given to search holds the query and at most one earlier query.
C16_OriginalQueryRecorded ==
    /\ \A i \in 1..Len(chat_history) :
          (chat_history[i].role = "user") =>
              (chat_history[i].content \in RagQueries)
    /\ (ask_op = "answered" /\ results # <<>>) =>
          /\ chat_history[Len(chat_history) - 1] = Message("user", ask_query)
          /\ llm_call.invoked => (llm_call.query = ask_query)
          /\ \/ search_query = ask_query
             \/ \E q \in RagQueries :
                    search_query = q \o <<" ">> \o ask_query

C16_Witness ==
    /\ ask_op = "answered"
    /\ Len(chat_history) = 6
    /\ chat_history[5] = Message("user", ask_query)
    /\ chat_history[3].content # ask_query
    /\ search_query = chat_history[3].content \o <<" ">> \o ask_query

\* C17: with chunk_size > chunk_overlap >= 0 the loop of chunk_text on n
\* tokens terminates, start grows on every iteration, and the loop leaves
\* exactly ceil(n / (chunk_size - chunk_overlap)) chunks, none for n = 0.
CeilDiv(a, b) == (a + b - 1) \div b

C17_LoopTerminates ==
    /\ []((pc = "while" /\ ~(start < Len(words))) =>
            (Len(page_chunks) =
                 CeilDiv(Len(words), chunk_size - chunk_overlap)))
    /\ [][/\ (pc = "while" /\ pc' = "while") => (start' > start)
          /\ (pc = "for" /\ pc' = "for") => (page_chunks' = <<>>)]_vars
    /\ ((pc = "while") ~> (pc = "for"))

C17_Witness ==
    /\ pc = "while"
    /\ ~(start < Len(words))
    /\ chunk_overlap > 0
    /\ Len(words) > chunk_size
    /\ Len(page_chunks) = CeilDiv(Len(words), chunk_size - chunk_overlap)
    /\ Len(page_chunks) >= 3

\* C10: on an index built from the n chunks of the store, search with
\* top_k > 0 returns exactly min(top_k, n) results, each a different chunk
\* of the store.
C10_SearchReturnsMinTopK ==
    (vs_op \in {"search", "search_raised"} /\ ~index.is_none
        /\ indexed = chunks /\ search_k > 0) =>
        /\ vs_op = "search"
        /\ Len(results) = Min(search_k, Len(chunks))
        /\ \A i \in 1..Len(results) :
              \E j \in 1..Len(chunks) : results[i].chunk = chunks[j]
        /\ \A i, j \in 1..Len(results) :
              (i # j) => (results[i].chunk # results[j].chunk)

\* C11: build_index on no chunk succeeds and leaves an empty index, and
\* search on an empty index or on an index never built returns the empty
\* list and does not raise.
C11_EmptyIndexSearchable ==
    /\ (vs_op \in {"build", "build_failed"} /\ chunks = <<>>) =>
           (vs_op = "build" /\ ~index.is_none /\ index.vectors = <<>>)
    /\ (vs_op \in {"search", "search_raised"}
           /\ (index.is_none \/ (index.vectors = <<>> /\ chunks = <<>>))) =>
           (vs_op = "search" /\ results = <<>>)

\* C12: the list search returns has non-increasing scores, results of
\* equal score come in ascending chunk_id, and it is the list the same
\* search gives again on the unmodified index.
C12_RankedAscendingTies ==
    (vs_op = "search" /\ indexed = chunks) =>
        /\ \A i, j \in 1..Len(results) :
              (i < j) =>
                  /\ results[i].score >= results[j].score
                  /\ (results[i].score = results[j].score) =>
                         (results[i].chunk.chunk_id <= results[j].chunk.chunk_id)
        /\ results = search(index, chunks, lib, search_query, search_k)

\* C15: after any sequence of build_index calls, failed ones and rebuilds
\* included, and searches, an index that is not None holds exactly one
\* vector for each element of chunks, in the same order, encoded from it.
C15_IndexMatchesChunks ==
    ~index.is_none =>
        /\ Len(index.vectors) = Len(chunks)
        /\ indexed = chunks

(***************************************************************************)
(* Properties of the chunker.                                              *)
(***************************************************************************)
\* the chunks produced so far, in production order
Produced == IF pc = "while" THEN all_chunks \o page_chunks ELSE all_chunks

PageNums == { pages[k][1] : k \in 1..Len(pages) }

\* the chunks of all_chunks that carry page number n, in order
ChunksOfPage(n) ==
    LET OnPage(c) == c.page_num = n
    IN  SelectSeq(all_chunks, OnPage)

\* C7: the chunks of process_pdf are numbered 0, 1, 2, ... in production
\* order, across pages, pages without tokens and gaps in the page numbers
\* included, and every chunk carries the number of the page that holds its
\* tokens.
C7_ChunkIdsContiguous ==
    /\ \A i \in 1..Len(Produced) : Produced[i].chunk_id = i - 1
    /\ \A i \in 1..Len(Produced) :
          \E k \in 1..Len(pages) :
             /\ pages[k][1] = Produced[i].page_num
             /\ LET T == Split(pages[k][2])
                    ct == Split(Produced[i].text)
                IN  /\ ct # <<>>
                    /\ \A j \in 1..Len(ct) : \E m \in 1..Len(T) : T[m] = ct[j]
    /\ (pc = "processed") => (chunk_counter = Len(all_chunks))

C7_Witness ==
    /\ pc = "processed"
    /\ Len(pages) = 2
    /\ Split(pages[1][2]) = <<>>
    /\ pages[2][1] = 3
    /\ Len(all_chunks) >= 2

C7_WitnessSkippedPage ==
    /\ pc = "processed"
    /\ Len(raw_pages) = 2
    /\ Len(pages) = 1
    /\ pages[1][1] = 2
    /\ Len(all_chunks) >= 2

\* the token sequence got from chunks cs by dropping from each chunk after
\* the first the leading tokens the chunk before it already holds
RECURSIVE DeOverlap(_, _, _)
DeOverlap(cs, j, step) ==
    IF j > Len(cs) THEN <<>>
    ELSE LET cur == Split(cs[j].text)
             covered == IF j = 1 THEN 0
                        ELSE Min(Len(cur), Len(Split(cs[j - 1].text)) - step)
         IN  Slice(cur, covered, Len(cur)) \o DeOverlap(cs, j + 1, step)

\* C8: for a page with tokens T, chunk j of the page is the tokens
\* T[j*step .. j*step + window) joined by single spaces, with
\* step = window - overlap; every chunk has between 1 and window tokens; a
\* page without tokens gives no chunk; the chunks de-overlapped give T back.
C8_WindowsOfTokens ==
    (pc = "processed") =>
        \A k \in 1..Len(pages) :
            LET T == Split(pages[k][2])
                cs == ChunksOfPage(pages[k][1])
                step == chunk_size - chunk_overlap
            IN  /\ \A j \in 0..(Len(cs) - 1) :
                      /\ j * step < Len(T)
                      /\ cs[j + 1].text =
                            Join(SubSeq(T, j * step + 1,
                                        Min(Len(T), j * step + chunk_size)))
                      /\ Len(Split(cs[j + 1].text)) >= 1
                      /\ Len(Split(cs[j + 1].text)) <= chunk_size
                /\ (T = <<>>) => (cs = <<>>)
                /\ (T # <<>>) => (cs # <<>>)
                /\ DeOverlap(cs, 1, step) = T

C8_Witness ==
    /\ pc = "processed"
    /\ chunk_size = 3
    /\ chunk_overlap = 2
    /\ Len(pages) = 2
    /\ Split(pages[1][2]) = <<>>
    /\ Len(Split(pages[2][2])) = 4
    /\ Len(all_chunks) = 4
    /\ Len(Split(all_chunks[4].text)) = 1

(***************************************************************************)
(* Properties of the deterministic fallback path.                          *)
(***************************************************************************)
Ellipsis == <<"U+2026">>    \* the single character HORIZONTAL ELLIPSIS

FbNonRefusalCase ==
    /\ fb_pc = "done"
    /\ fb_chunks # <<>>
    /\ fb_chunks[1].score >= Threshold

\* C3: on the fallback path with a non-empty ranked list the top result alone
\* decides: a top score below 0.4 gives exactly the refusal string, a top
\* score of 0.4 or more gives an answer that starts with the citation token
\* of the top chunk, whatever the scores further down the list.
C3_TopResultDecides ==
    (fb_pc = "done" /\ fb_chunks # <<>>) =>
        LET top == fb_chunks[1]
        IN  /\ (top.score < Threshold) => (fb_answer = Refusal)
            /\ (top.score >= Threshold) =>
                   StartsWithCitation(fb_answer, top.chunk.page_num,
                                      top.chunk.chunk_id)
            /\ (fb_answer = Refusal) <=> (top.score < Threshold)

C3_Witness ==
    /\ fb_pc = "done"
    /\ Len(fb_chunks) = 2
    /\ fb_chunks[1].score = Threshold
    /\ fb_chunks[2].score < Threshold
    /\ fb_chunks[1].chunk.chunk_id = 10
    /\ fb_answer # Refusal

\* C5 as the specification states it: the excerpt of a truncated text ends
\* with the one-character ellipsis marker.
C5_EllipsisCharacter ==
    FbNonRefusalCase =>
        LET c == fb_chunks[1].chunk
        IN  fb_answer = get_citation(c) \o <<" ">> \o
               (IF Len(c.text) <= SnippetLen THEN c.text
                ELSE SubSeq(c.text, 1, SnippetLen) \o Ellipsis)

\* C5, amended: every non-refusal answer of the fallback path is the citation
\* of the top chunk, one space, and the excerpt: the whole text when it has
\* at most 200 characters, otherwise its first 200 characters followed by
\* three full stops "..."; the marker is there iff the text was truncated.
C5_ExcerptThreeDots ==
    FbNonRefusalCase =>
        LET c == fb_chunks[1].chunk
        IN  fb_answer = get_citation(c) \o <<" ">> \o
               (IF Len(c.text) <= SnippetLen THEN c.text
                ELSE SubSeq(c.text, 1, SnippetLen) \o <<".", ".", ".">>)

C5_Witness ==
    /\ FbNonRefusalCase
    /\ Len(fb_chunks[1].chunk.text) = SnippetLen + 1
    /\ Len(fb_answer) = Len(get_citation(fb_chunks[1].chunk)) + 1 + SnippetLen + 3

\* C6: every non-refusal answer of the fallback path holds exactly one
\* citation token, also when the chunk text holds a substring of that form,
\* and every refusal is exactly the refusal string.
C6_ExactlyOneCitation ==
    (fb_pc = "done") =>
        IF fb_chunks # <<>> /\ fb_chunks[1].score >= Threshold
        THEN CountCitations(fb_answer) = 1
        ELSE fb_answer = Refusal

====
